---- MODULE Spec2Model ----
(***************************************************************************)
(* bullseye: resumable upload server.                                      *)
(*                                                                         *)
(* The model covers                                                        *)
(*   - the "uploads" table and the UploadRow operations of                 *)
(*     common/src/db.rs (new, from_database, check_out, finish, enter,     *)
(*     change_status, stream_status_changes),                              *)
(*   - the backing files and the flock(2) based locks of                   *)
(*     server/src/files.rs and common/src/lib.rs (new_file, delete_file,   *)
(*     write_to_file, exclusive_lock), with what sync_all has made         *)
(*     durable,                                                            *)
(*   - the request handlers of server/src/main.rs (new_upload,             *)
(*     get_upload, put_upload_chunk, upload_subscribe, upload_finish),     *)
(*     one process per request, one step per await on the database or      *)
(*     the file system.                                                    *)
(*                                                                         *)
(* Specifications over the same variables:                                 *)
(*   Spec       the server: its handlers, one external worker, one upload  *)
(*   SpecStore  the record store used by external workers (one record)     *)
(*   SpecFile   write_to_file on one file, any offset and body             *)
(*   SpecCover  write_to_file fed in-bounds ranges of an original file     *)
(*   SpecLock   the lock handles of tests::test_locks                      *)
(*   SpecNewFile  new_file and delete_file on one directory                *)
(*   SpecEvents   the status changefeed of one upload and its subscriber   *)
(*   SpecCrash    write_to_file on a server that crashes                   *)
(*   SpecWriters  two write_to_file calls and finish requests on one file  *)
(*   SpecRecords  records inserted and used through the store's operations *)
(*   SpecClient   one run of the upload client against any server          *)
(*   SpecClientFair  the same, the client never stopping while it can step *)
(***************************************************************************)
EXTENDS Integers, Sequences, FiniteSets, TLC

VARIABLES
    now,        \* UploadRow::now(): wall clock, seconds
    uploads,    \* table "uploads": id -> row
    files,      \* data directory: id -> bytes of the backing file
    locks,      \* flock locks held: set of [handle, id, exclusive]
    pc,         \* per process: where it is in its handler
    loc,        \* per process: the handler's local variables
    resp,       \* per process: the last result returned to the caller
    fresh,      \* history: id -> callers check_out(processing=false) returned
                \* the row to since its processing flag was last cleared
    orig,       \* the client's source file (the bytes it uploads)
    ranges,     \* history: the (offset, length) ranges handed to write_to_file
    feeds,      \* per subscriber: its changefeed on a row and what it has emitted
    durable     \* id -> bytes of the file that sync_all has put on stable storage

vars ==
    <<now, uploads, files, locks, pc, loc, resp, fresh, orig, ranges, feeds, durable>>

----------------------------------------------------------------------------
(* Bounds of the model *)

MaxTicks == 4      \* clock ticks taken
MaxSize == 2       \* declared file sizes 0..MaxSize
MaxChunkLen == 2   \* bytes in one incoming byte range of a request body

(* Program constants *)

Grace == 60        \* check_out: activity_grace = now - 60
MAX_TRIES == 7     \* try_something!: for i in 0..MAX_TRIES
SubscribeTries == 12   \* iter_file: if tries > 12
UploadTries == 5   \* main: for i in 0..5

----------------------------------------------------------------------------
(* data.rs *)

UploadError == {"FAILED_CHECKSUM", "FAILED_VERIFY", "FAILED_OTHER"}

Status ==
    {"UPLOADING", "VERIFYING", "DERIVING", "PACKING", "FINISHED", "ABANDONED"}
        \cup UploadError

Terminal == {"FINISHED", "ABANDONED"} \cup UploadError

Ids == {"u1", "u2"}
Projects == {"pa", "pb"}
Pipelines == {"pl"}

\* The uploads and the statuses the users of the record store work with.
StoreIds == {"u1"}
StoreStatus == {"UPLOADING", "VERIFYING", "FINISHED"}

Workers == {"w1", "w2"}
PutHandlers == {"p1", "p2"}
FinHandlers == {"f1", "f2"}
NewHandlers == {"n1", "n2"}
\* tests::test_locks: file, file2, file3, file4 (files.rs:136-139)
LockHandles == {"file", "file2", "file3", "file4"}
\* Clients that read an upload: GET /upload/{uuid} and GET /upload/{uuid}/events.
Subscribers == {"s1"}
\* Runs of the upload client (client/src/main.rs).
Clients == {"c1"}
Procs ==
    Workers \cup PutHandlers \cup FinHandlers \cup NewHandlers \cup LockHandles
        \cup Subscribers \cup Clients

\* The clock advances in steps of half the grace period, so that a row is seen
\* exactly Grace seconds old (not yet stale) and older (stale).
TickLen == Grace \div 2
Epoch == 2 * Grace
Times == {Epoch + k * TickLen : k \in 0..MaxTicks}

UploadRow(id, status, size, last_activity, pipeline, project, processing) ==
    [id |-> id, status |-> status, size |-> size, last_activity |-> last_activity,
     pipeline |-> pipeline, project |-> project, processing |-> processing]

\* A local that holds no row (Option::None, or not yet read).
NoRow == UploadRow("", "", 0, 0, "", "", FALSE)

----------------------------------------------------------------------------
(* db.rs: the queries, as functions of the table *)

\* UploadRow::new: the row inserted.
NewRow(id, size, pipeline, project, t) ==
    UploadRow(id, "UPLOADING", size, t, pipeline, project, FALSE)

\* An insert with conflict = "replace": the stored document is overwritten.
InsertReplacing(tbl, row) ==
    IF row.id \in DOMAIN tbl
    THEN [tbl |-> [tbl EXCEPT ![row.id] = row], inserted |-> 0]
    ELSE [tbl |-> tbl @@ (row.id :> row), inserted |-> 1]

\* UploadRow::new: table("uploads").insert(s), with the default conflict =
\* "error": a document whose primary key exists is not written and inserted is 0.
Insert(tbl, row) ==
    IF row.id \in DOMAIN tbl
    THEN [tbl |-> tbl, inserted |-> 0]
    ELSE [tbl |-> tbl @@ (row.id :> row), inserted |-> 1]

\* A selection whose filter keeps the rows with recent activity.
CheckOutSelectionRecent(tbl, project, pipeline, status, processing, t) ==
    {id \in DOMAIN tbl :
        /\ tbl[id].project = project
        /\ tbl[id].pipeline = pipeline
        /\ tbl[id].status = status
        /\ tbl[id].processing = processing
        /\ (processing => tbl[id].last_activity >= t - Grace)}

\* check_out: get_all([project, pipeline, status, processing], index nf_status)
\*   .filter(last_activity < activity_grace), activity_grace being now - 60 for
\*   processing = true and u64::MAX (every timestamp passes) otherwise.
CheckOutSelection(tbl, project, pipeline, status, processing, t) ==
    {id \in DOMAIN tbl :
        /\ tbl[id].project = project
        /\ tbl[id].pipeline = pipeline
        /\ tbl[id].status = status
        /\ tbl[id].processing = processing
        /\ (processing => tbl[id].last_activity < t - Grace)}

\* An update that sets the flag and leaves last_activity.
CheckOutBranchFlagOnly(row, processing, t) ==
    IF row.processing = processing
    THEN [row EXCEPT !.processing = TRUE]
    ELSE row

\* The update without its branch: the new values whatever the stored flag is.
CheckOutBranchAlways(row, processing, t) ==
    [row EXCEPT !.processing = TRUE, !.last_activity = t]

\* check_out: the update function, evaluated atomically on the stored row:
\*   branch(row.processing == processing, {processing: true, last_activity: now}, {})
CheckOutBranch(row, processing, t) ==
    IF row.processing = processing
    THEN [row EXCEPT !.processing = TRUE, !.last_activity = t]
    ELSE row

\* finish: update({status: VERIFYING})
FinishUpdate(row) == [row EXCEPT !.status = "VERIFYING"]

\* An update that also clears the claim.
EnterUpdateClearing(row, t) == [row EXCEPT !.last_activity = t, !.processing = FALSE]

\* enter: update({last_activity: now})
EnterUpdate(row, t) == [row EXCEPT !.last_activity = t]

\* change_status: update({status: new_status, processing: false})
ChangeStatusUpdate(row, new_status) ==
    [row EXCEPT !.status = new_status, !.processing = FALSE]

\* stream_status_changes: the changefeed get(id).changes(include_initial) of one
\* subscriber.  queue holds the statuses of the changes the database has sent and
\* the stream has not yet taken; emitted is what the stream has yielded;
\* committed (history) is the status of the row when the feed was opened and
\* after every committed change of the row since.
NoFeed ==
    [open |-> FALSE, id |-> "", queue |-> <<>>, emitted |-> <<>>, committed |-> <<>>]

\* A feed that hands out the newest change first.
FeedPushFront(queue, status) == <<status>> \o queue

\* The changes of one document reach the feed in the order they are committed.
FeedPush(queue, status) == Append(queue, status)

\* A write that changes a row sends {new_val: row} to every open feed on the row;
\* a write that leaves the row as it is sends nothing.
Changes(fd, old, new) ==
    [s \in DOMAIN fd |->
        LET f == fd[s] IN
        IF f.open /\ f.id \in DOMAIN old /\ f.id \in DOMAIN new
              /\ old[f.id] # new[f.id]
        THEN [f EXCEPT !.queue = FeedPush(@, new[f.id].status),
                       !.committed = Append(@, new[f.id].status)]
        ELSE f]

----------------------------------------------------------------------------
(* The clock *)

Tick ==
    /\ now + TickLen \in Times
    /\ now' = now + TickLen
    /\ UNCHANGED <<uploads, files, locks, pc, loc, resp,
                   fresh, orig, feeds, durable, ranges>>

----------------------------------------------------------------------------
(* Users of the record store (external workers, db.rs API) *)

Idle == [row |-> NoRow]

\* The operation of process p ends with result r; its locals are dropped.
Return(p, r) ==
    /\ pc' = [pc EXCEPT ![p] = "done"]
    /\ loc' = [loc EXCEPT ![p] = Idle]
    /\ resp' = [resp EXCEPT ![p] = r]

\* The result has been delivered; the process is free for its next operation.
Respond(p) ==
    /\ pc[p] = "done"
    /\ pc' = [pc EXCEPT ![p] = "idle"]
    /\ resp' = [resp EXCEPT ![p] = "-"]
    /\ UNCHANGED <<now, uploads, files, locks, loc, fresh,
                   orig, feeds, durable, ranges>>

\* UploadRow::from_database(uuid)
FromDatabase(w, uuid) ==
    /\ pc[w] = "idle"
    /\ IF uuid \in DOMAIN uploads
       THEN /\ pc' = [pc EXCEPT ![w] = "row"]
            /\ loc' = [loc EXCEPT ![w] = [row |-> uploads[uuid]]]
            /\ resp' = [resp EXCEPT ![w] = "Ok"]
       ELSE Return(w, "NotFound")
    /\ UNCHANGED <<now, uploads, files, locks, fresh, orig, feeds, durable, ranges>>

\* UploadRow::new(id, file, pipeline, project): the row is built with status
\* UPLOADING, last_activity = now, processing = false, and inserted.  A failed
\* request is DbError::Other; inserted != 1 is DbError::WriteFailed.
NewRecord(w, id, size, pipeline, project, db_ok) ==
    /\ pc[w] = "idle"
    /\ LET s == NewRow(id, size, pipeline, project, now)
           r == Insert(uploads, s)
       IN IF ~db_ok
          THEN /\ Return(w, "Other")
               /\ UNCHANGED uploads
          ELSE /\ uploads' = r.tbl
               /\ IF r.inserted # 1
                  THEN Return(w, "WriteFailed")
                  ELSE /\ pc' = [pc EXCEPT ![w] = "row"]
                       /\ loc' = [loc EXCEPT ![w] = [row |-> s]]
                       /\ resp' = [resp EXCEPT ![w] = "Ok"]
    /\ feeds' = Changes(feeds, uploads, uploads')
    /\ UNCHANGED <<now, files, locks, fresh, orig, durable, ranges>>

\* check_out, first half: the query is built (activity_grace and the new
\* last_activity are read from the clock) and the selection
\* get_all(..).filter(..).sample(1) is read.  An empty selection updates nothing:
\* replaced = 0, Ok(None).
CheckOutSelect(w, project, pipeline, status, processing) ==
    /\ pc[w] = "idle"
    /\ LET sel == CheckOutSelection(uploads, project, pipeline, status, processing, now)
       IN IF sel = {}
          THEN Return(w, "None")
          ELSE \E id \in sel :
               /\ pc' = [pc EXCEPT ![w] = "check_out"]
               /\ loc' = [loc EXCEPT ![w] =
                            [row |-> NoRow, sel |-> id, status |-> status,
                             processing |-> processing, stamp |-> now]]
               /\ UNCHANGED resp
    /\ UNCHANGED <<now, uploads, files, locks, fresh, orig, feeds, durable, ranges>>

\* check_out, second half: the update is applied to the sampled row, atomically
\* for that row.  replaced > 0: Some(new_val); otherwise (unchanged) None.
CheckOutUpdate(w) ==
    /\ pc[w] = "check_out"
    /\ LET id == loc[w].sel
           new == CheckOutBranch(uploads[id], loc[w].processing, loc[w].stamp)
       IN IF new # uploads[id]
          THEN /\ uploads' = [uploads EXCEPT ![id] = new]
               /\ pc' = [pc EXCEPT ![w] = "row"]
               /\ loc' = [loc EXCEPT ![w] = [row |-> new]]
               /\ resp' = [resp EXCEPT ![w] = "Some"]
               /\ fresh' = IF loc[w].processing
                           THEN fresh
                           ELSE [fresh EXCEPT ![id] = @ \cup {w}]
          ELSE /\ Return(w, "None")
               /\ UNCHANGED <<uploads, fresh>>
    /\ feeds' = Changes(feeds, uploads, uploads')
    /\ UNCHANGED <<now, files, locks, orig, durable, ranges>>

\* row.finish(): the status of the caller's copy is tested, then the stored row
\* is updated by id.
Finish(w) ==
    /\ pc[w] = "row"
    /\ IF loc[w].row.status # "UPLOADING"
       THEN /\ resp' = [resp EXCEPT ![w] = "WrongStatus"]
            /\ UNCHANGED <<uploads, loc>>
       ELSE /\ uploads' = [uploads EXCEPT ![loc[w].row.id] = FinishUpdate(@)]
            /\ loc' = [loc EXCEPT ![w].row.status = "VERIFYING"]
            /\ resp' = [resp EXCEPT ![w] = "Ok"]
    /\ feeds' = Changes(feeds, uploads, uploads')
    /\ UNCHANGED <<now, files, locks, pc, fresh, orig, durable, ranges>>

\* row.enter()
Enter(w) ==
    /\ pc[w] = "row"
    /\ uploads' = [uploads EXCEPT ![loc[w].row.id] = EnterUpdate(@, now)]
    /\ loc' = [loc EXCEPT ![w].row.last_activity = now]
    /\ resp' = [resp EXCEPT ![w] = "Ok"]
    /\ feeds' = Changes(feeds, uploads, uploads')
    /\ UNCHANGED <<now, files, locks, pc, fresh, orig, durable, ranges>>

\* row.change_status(new_status)
ChangeStatus(w, new_status) ==
    /\ pc[w] = "row"
    /\ uploads' = [uploads EXCEPT ![loc[w].row.id] = ChangeStatusUpdate(@, new_status)]
    /\ loc' = [loc EXCEPT ![w].row.status = new_status]
    /\ resp' = [resp EXCEPT ![w] = "Ok"]
    /\ fresh' = [fresh EXCEPT ![loc[w].row.id] = {}]
    /\ feeds' = Changes(feeds, uploads, uploads')
    /\ UNCHANGED <<now, files, locks, pc, orig, durable, ranges>>

\* The caller drops its UploadRow.
DropRow(w) ==
    /\ pc[w] = "row"
    /\ pc' = [pc EXCEPT ![w] = "idle"]
    /\ loc' = [loc EXCEPT ![w] = Idle]
    /\ resp' = [resp EXCEPT ![w] = "-"]
    /\ UNCHANGED <<now, uploads, files, locks, fresh, orig, feeds, durable, ranges>>

----------------------------------------------------------------------------
(* SpecStore: one upload already initialised, used by two workers *)

InitProcs ==
    /\ pc = [p \in Procs |-> "idle"]
    /\ loc = [p \in Procs |-> Idle]
    /\ resp = [p \in Procs |-> "-"]
    /\ locks = {}
    /\ fresh = [id \in Ids |-> {}]
    /\ orig = <<>>
    /\ ranges = {}
    /\ feeds = [s \in Subscribers |-> NoFeed]
    /\ durable = [id \in {} |-> <<>>]

InitStore ==
    /\ now = Epoch
    /\ uploads = [id \in StoreIds |-> NewRow(id, 1, "pl", "pa", Epoch)]
    /\ files = [id \in StoreIds |-> <<0>>]
    /\ InitProcs

NextStore ==
    \/ Tick
    \/ \E w \in Workers, id \in StoreIds : FromDatabase(w, id)
    \/ \E w \in Workers, pr \in Projects, pl \in Pipelines, st \in Status,
          processing \in BOOLEAN : CheckOutSelect(w, pr, pl, st, processing)
    \/ \E w \in Workers : CheckOutUpdate(w)
    \/ \E w \in Workers : Finish(w)
    \/ \E w \in Workers : Enter(w)
    \/ \E w \in Workers, st \in StoreStatus : ChangeStatus(w, st)
    \/ \E w \in Workers : DropRow(w)
    \/ \E w \in Workers : Respond(w)

SpecStore == InitStore /\ [][NextStore]_vars

----------------------------------------------------------------------------
(* files.rs and lib.rs: backing files and their locks *)

Byte == {1, 2}

Max(a, b) == IF a >= b THEN a ELSE b

Min(a, b) == IF a <= b THEN a ELSE b

\* new_file: posix_fallocate(fd, 0, with_size) on a file just created; a size of 0
\* allocates nothing.  The file reads as with_size zero bytes.
Allocated(with_size) == [i \in 1..with_size |-> 0]

\* A u64 is written as the i64 with the same 64 bits: the values from 2^63 up are
\* the negative numbers, u64::MAX is -1.  with_size.try_into() to i64 succeeds
\* exactly for the values whose top bit is clear.
FitsI64(with_size) == with_size >= 0

\* Sizes that do not fit an i64.
TooLarge == {-1}

\* A removal that leaves the file where it is.
delete_file_skipped(fs, id) == fs

\* delete_file: remove_file(path)
delete_file(fs, id) == [i \in DOMAIN fs \ {id} |-> fs[i]]

\* File::create in place of File::create_new: an existing file is truncated.
new_file_truncating(fs, id, with_size, create_ok, reserve_ok) ==
    IF ~FitsI64(with_size)
    THEN [res |-> "File too large", files |-> fs]
    ELSE IF ~create_ok
    THEN [res |-> "create failed", files |-> fs]
    ELSE IF with_size > 0 /\ ~reserve_ok
    THEN [res |-> "posix_fallocate failed", files |-> delete_file(fs, id)]
    ELSE [res |-> "Ok",
          files |-> [i \in DOMAIN fs \cup {id} |->
                        IF i = id THEN Allocated(with_size) ELSE fs[i]]]

\* No removal after a failed reservation: the empty file stays.
new_file_keeping(fs, id, with_size, create_ok, reserve_ok) ==
    IF ~FitsI64(with_size)
    THEN [res |-> "File too large", files |-> fs]
    ELSE IF id \in DOMAIN fs
    THEN [res |-> "AlreadyExists", files |-> fs]
    ELSE IF ~create_ok
    THEN [res |-> "create failed", files |-> fs]
    ELSE IF with_size > 0 /\ ~reserve_ok
    THEN [res |-> "posix_fallocate failed", files |-> fs @@ (id :> <<>>)]
    ELSE [res |-> "Ok", files |-> fs @@ (id :> Allocated(with_size))]

\* new_file(path, id, with_size): the result and the directory it leaves.
\*   - with_size does not fit an i64: "File too large", nothing is created;
\*   - File::create_new fails, because the file exists (AlreadyExists) or for
\*     another reason (create_ok = FALSE): nothing is created;
\*   - with_size > 0 and posix_fallocate fails (reserve_ok = FALSE): the file just
\*     created is removed;
\*   - otherwise the file exists and is with_size bytes long.
new_file(fs, id, with_size, create_ok, reserve_ok) ==
    IF ~FitsI64(with_size)
    THEN [res |-> "File too large", files |-> fs]
    ELSE IF id \in DOMAIN fs
    THEN [res |-> "AlreadyExists", files |-> fs]
    ELSE IF ~create_ok
    THEN [res |-> "create failed", files |-> fs]
    ELSE IF with_size > 0 /\ ~reserve_ok
    THEN [res |-> "posix_fallocate failed",
          files |-> delete_file(fs @@ (id :> <<>>), id)]
    ELSE [res |-> "Ok", files |-> fs @@ (id :> Allocated(with_size))]

\* A write that ignores the position (no seek): the bytes land at 0.
WriteAllAtStart(bytes, pos, chunk) ==
    [i \in 1..Max(Len(bytes), Len(chunk)) |->
        IF i <= Len(chunk) THEN chunk[i] ELSE bytes[i]]

\* file.write_all(chunk) at the handle's position pos (0-based): the bytes are
\* stored at pos.., the file growing when they reach past its end.
WriteAll(bytes, pos, chunk) ==
    IF chunk = <<>>
    THEN bytes
    ELSE [i \in 1..Max(Len(bytes), pos + Len(chunk)) |->
            IF i > pos /\ i <= pos + Len(chunk) THEN chunk[i - pos]
            ELSE IF i <= Len(bytes) THEN bytes[i]
            ELSE 0]

\* A sync that puts nothing on stable storage.
sync_all_skipped(d, id, bytes) == d

\* file.flush() and file.sync_all(): the bytes of the file are on stable storage.
sync_all(d, id, bytes) ==
    [i \in DOMAIN d \cup {id} |-> IF i = id THEN bytes ELSE d[i]]

\* What the directory holds after a crash: for a file that has been synced, the
\* bytes of its last sync.
Recovered(fs, d) ==
    [id \in DOMAIN fs |-> IF id \in DOMAIN d THEN d[id] ELSE fs[id]]

\* A lock that only keeps two exclusive holders apart.
acquire_lock_among_writers(held, handle, id, exclusive) ==
    \A l \in held :
        (l.id = id /\ l.handle # handle) => (~exclusive \/ ~l.exclusive)

\* A lock whose every request is treated as exclusive.
acquire_lock_all_exclusive(held, handle, id, exclusive) ==
    \A l \in held : l.id = id => l.handle = handle

\* common::acquire_lock: flock(fd, LOCK_EX | LOCK_NB) or flock(fd, LOCK_SH | LOCK_NB)
\* on a handle that holds no lock.  Granted unless another handle of the file
\* holds a conflicting lock (EWOULDBLOCK: "file is locked").
acquire_lock(held, handle, id, exclusive) ==
    \A l \in held :
        (l.id = id /\ l.handle # handle) => (~exclusive /\ ~l.exclusive)

Lock(handle, id, exclusive) == [handle |-> handle, id |-> id, exclusive |-> exclusive]

\* Dropping a File closes it, which releases the lock held through it.
Dropped(held, handle) == {l \in held : l.handle # handle}

\* write_to_file's test of one incoming byte range: the range is refused when
\* offset + chunk.len() > size, offset being the request's offset.
ExceedsBounds(offset, chunk, size) == offset + Len(chunk) > size

\* write_to_file up to its loop: get_file (open, shared lock) and seek(offset).
\* body holds the bytes of the request body that have not come in yet.
write_to_file(p, id, size, offset, body) ==
    /\ id \in DOMAIN files
    /\ IF acquire_lock(locks, p, id, FALSE)
       THEN /\ locks' = locks \cup {Lock(p, id, FALSE)}
            /\ pc' = [pc EXCEPT ![p] = "write"]
            /\ loc' = [loc EXCEPT ![p] =
                         [row |-> NoRow, id |-> id, size |-> size, offset |-> offset,
                          body |-> body, pos |-> offset]]
            /\ UNCHANGED resp
       ELSE /\ Return(p, "I/O error")
            /\ UNCHANGED locks
    /\ UNCHANGED <<now, uploads, files, fresh, orig, feeds, durable>>

\* write_to_file as put_upload_chunk calls it: for the file of a row, with the
\* row's size and an offset that is not greater than it.
WriteToFile(p, id, offset, body) ==
    /\ pc[p] = "idle"
    /\ id \in DOMAIN uploads
    /\ offset <= uploads[id].size
    /\ write_to_file(p, id, uploads[id].size, offset, body)
    /\ UNCHANGED ranges

\* One turn of write_to_file's loop: body.next() yields the next incoming byte
\* range, of any length the transport chooses, or the end of the body.  At the end
\* the call returns Ok; a range that exceeds the bounds ends it with an error;
\* otherwise the range is written, flushed and synced.  Returning drops the file.
WriteChunk(p) ==
    /\ pc[p] = "write"
    /\ LET l == loc[p] IN
       IF l.body = <<>>
       THEN /\ Return(p, "Ok")
            /\ locks' = Dropped(locks, p)
            /\ UNCHANGED <<files, durable>>
       ELSE \E n \in 1..Min(MaxChunkLen, Len(l.body)) :
            LET chunk == SubSeq(l.body, 1, n) IN
            IF ExceedsBounds(l.offset, chunk, l.size)
            THEN /\ Return(p, "I/O error")
                 /\ locks' = Dropped(locks, p)
                 /\ UNCHANGED <<files, durable>>
            ELSE /\ files' = [files EXCEPT ![l.id] = WriteAll(@, l.pos, chunk)]
                 /\ durable' = sync_all(durable, l.id, files'[l.id])
                 /\ loc' = [loc EXCEPT ![p].pos = @ + n,
                                       ![p].body = SubSeq(@, n + 1, Len(@))]
                 /\ UNCHANGED <<pc, resp, locks>>
    /\ UNCHANGED <<now, uploads, fresh, orig, feeds>>

PutChunk(p) == WriteChunk(p) /\ UNCHANGED ranges

\* The body stream yields an error (the client went away): "Chunk read failed".
ChunkReadFailed(p) ==
    /\ pc[p] = "write"
    /\ Return(p, "I/O error")
    /\ locks' = Dropped(locks, p)
    /\ UNCHANGED <<now, uploads, files, fresh, orig, feeds, durable, ranges>>

\* Request bodies: up to MaxSize + 1 bytes, enough to pass the end of the file
\* from any offset.
Bodies == UNION {[1..n -> Byte] : n \in 0..(MaxSize + 1)}

----------------------------------------------------------------------------
(* main.rs: the request handlers *)

\* POST /upload, first await: files::new_file(cwd, id, size) for a new uuid.
\* When new_file fails the handler answers "I/O error" and inserts nothing.
NewUploadFile(n, id, size, pipeline, project, create_ok, reserve_ok) ==
    /\ pc[n] = "idle"
    /\ id \notin DOMAIN files /\ id \notin DOMAIN uploads
    /\ LET r == new_file(files, id, size, create_ok, reserve_ok) IN
       /\ files' = r.files
       /\ IF r.res = "Ok"
          THEN /\ pc' = [pc EXCEPT ![n] = "new_row"]
               /\ loc' = [loc EXCEPT ![n] =
                            [row |-> NewRow(id, size, pipeline, project, 0)]]
               /\ UNCHANGED resp
          ELSE Return(n, "I/O error")
    /\ UNCHANGED <<now, uploads, locks, fresh, orig, feeds, durable, ranges>>

\* POST /upload, second await: UploadRow::new inserts the row; when the insert
\* fails the file is deleted again.
NewUploadRow(n, db_ok) ==
    /\ pc[n] = "new_row"
    /\ LET id == loc[n].row.id IN
       IF db_ok
       THEN /\ uploads' = uploads @@ (id :> [loc[n].row EXCEPT !.last_activity = now])
            /\ Return(n, "Ok")
            /\ UNCHANGED files
       ELSE /\ files' = delete_file(files, id)
            /\ Return(n, "Write error")
            /\ UNCHANGED uploads
    /\ UNCHANGED <<now, locks, fresh, orig, feeds, durable, ranges>>

\* A handler without the test of the offset.
OffsetTooLargeNever(offset, size) == FALSE

\* put_upload_chunk: offset > row.size()
OffsetTooLarge(offset, size) == offset > size

\* PUT /upload/{uuid}/data?offset=N, first await: from_database, then the tests
\* of the row read.  A row that is not found leaves res = Ok.
PutRead(p, uuid, offset, body) ==
    /\ pc[p] = "idle"
    /\ IF uuid \notin DOMAIN uploads
       THEN Return(p, "Ok")
       ELSE IF uploads[uuid].status # "UPLOADING"
       THEN Return(p, "Item is not in the UPLOADING status")
       ELSE IF OffsetTooLarge(offset, uploads[uuid].size)
       THEN Return(p, "Offset too large")
       ELSE /\ pc' = [pc EXCEPT ![p] = "enter"]
            /\ loc' = [loc EXCEPT ![p] =
                         [row |-> uploads[uuid], offset |-> offset, body |-> body]]
            /\ UNCHANGED resp
    /\ UNCHANGED <<now, uploads, files, locks, fresh, orig, feeds, durable, ranges>>

\* PUT, second await: row.enter()
PutEnter(p) ==
    /\ pc[p] = "enter"
    /\ uploads' = [uploads EXCEPT ![loc[p].row.id] = EnterUpdate(@, now)]
    /\ pc' = [pc EXCEPT ![p] = "open"]
    /\ loc' = [loc EXCEPT ![p].row.last_activity = now]
    /\ feeds' = Changes(feeds, uploads, uploads')
    /\ UNCHANGED <<now, files, locks, resp, fresh, orig, durable, ranges>>

\* PUT, third await: files::write_to_file(cwd, row.id(), row.size(), offset, body)
PutWrite(p) ==
    /\ pc[p] = "open"
    /\ write_to_file(p, loc[p].row.id, loc[p].row.size, loc[p].offset, loc[p].body)
    /\ UNCHANGED ranges

\* POST /upload/{uuid}/finish, first await: from_database
FinishRead(f, uuid) ==
    /\ pc[f] = "idle"
    /\ IF uuid \in DOMAIN uploads
       THEN /\ pc' = [pc EXCEPT ![f] = "lock"]
            /\ loc' = [loc EXCEPT ![f] = [row |-> uploads[uuid]]]
            /\ UNCHANGED resp
       ELSE Return(f, "NotFound")
    /\ UNCHANGED <<now, uploads, files, locks, fresh, orig, feeds, durable, ranges>>

\* A lock request that is always granted.
exclusive_lock_unchecked(f, id) == TRUE

\* The lock request with exclusive = false.
exclusive_lock_shared(f, id) == acquire_lock(locks, f, id, FALSE)

\* files::exclusive_lock(cwd, row.id()): open, exclusive lock.
exclusive_lock(f, id) == acquire_lock(locks, f, id, TRUE)

\* POST finish, second await: the exclusive lock; "Failed to lock file" without it.
FinishLock(f) ==
    /\ pc[f] = "lock"
    /\ IF exclusive_lock(f, loc[f].row.id)
       THEN /\ locks' = locks \cup {Lock(f, loc[f].row.id, TRUE)}
            /\ pc' = [pc EXCEPT ![f] = "finish"]
            /\ UNCHANGED <<loc, resp>>
       ELSE /\ Return(f, "Failed to lock file")
            /\ UNCHANGED locks
    /\ UNCHANGED <<now, uploads, files, fresh, orig, feeds, durable, ranges>>

\* POST finish, third await: row.finish() on the row read at the start, with the
\* lock held; the lock is dropped when the handler's match arm ends.
FinishRow(f) ==
    /\ pc[f] = "finish"
    /\ IF loc[f].row.status # "UPLOADING"
       THEN /\ Return(f, "Wrong status")
            /\ UNCHANGED uploads
       ELSE /\ uploads' = [uploads EXCEPT ![loc[f].row.id] = FinishUpdate(@)]
            /\ Return(f, "Ok")
    /\ locks' = Dropped(locks, f)
    /\ feeds' = Changes(feeds, uploads, uploads')
    /\ UNCHANGED <<now, files, fresh, orig, durable, ranges>>

\* GET /upload/{uuid}: from_database; the row, or NotFound.
GetUpload(g, uuid) ==
    /\ pc[g] = "idle"
    /\ IF uuid \in DOMAIN uploads THEN Return(g, "Ok") ELSE Return(g, "NotFound")
    /\ UNCHANGED <<now, uploads, files, locks, fresh, orig, ranges, feeds, durable>>

\* GET /upload/{uuid}/events, first await: from_database; NotFound, or the
\* streaming response is set up around the row.
SubscribeRead(sub, uuid) ==
    /\ pc[sub] = "idle"
    /\ IF uuid \in DOMAIN uploads
       THEN /\ pc' = [pc EXCEPT ![sub] = "stream"]
            /\ loc' = [loc EXCEPT ![sub] = [row |-> uploads[uuid]]]
            /\ UNCHANGED resp
       ELSE Return(sub, "NotFound")
    /\ UNCHANGED <<now, uploads, files, locks, fresh, orig, ranges, feeds, durable>>

\* The stream is polled for the first time: stream_status_changes runs the
\* changefeed query; include_initial sends the row as it is now.
SubscribeOpen(sub) ==
    /\ pc[sub] = "stream"
    /\ pc' = [pc EXCEPT ![sub] = "events"]
    /\ LET id == loc[sub].row.id IN
       feeds' = [feeds EXCEPT ![sub] =
                    [open |-> TRUE, id |-> id,
                     queue |-> FeedPush(<<>>, uploads[id].status),
                     emitted |-> <<>>,
                     committed |-> <<uploads[id].status>>]]
    /\ UNCHANGED <<now, uploads, files, locks, loc, resp, fresh, orig, ranges, durable>>

\* One turn of the stream's loop: q.try_next() yields a change, its new_val is
\* parsed, self.status is set and yielded.
Emit(sub) ==
    /\ pc[sub] = "events"
    /\ feeds[sub].queue # <<>>
    /\ feeds' = [feeds EXCEPT ![sub].queue = Tail(@),
                              ![sub].emitted = Append(@, Head(feeds[sub].queue))]
    /\ loc' = [loc EXCEPT ![sub].row.status = Head(feeds[sub].queue)]
    /\ UNCHANGED <<now, uploads, files, locks, pc, resp, fresh, orig, ranges, durable>>

\* The client closes the connection: the stream and its changefeed are dropped.
CloseEvents(sub) ==
    /\ pc[sub] = "events"
    /\ pc' = [pc EXCEPT ![sub] = "idle"]
    /\ loc' = [loc EXCEPT ![sub] = Idle]
    /\ feeds' = [feeds EXCEPT ![sub] = NoFeed]
    /\ UNCHANGED <<now, uploads, files, locks, resp, fresh, orig, ranges, durable>>

----------------------------------------------------------------------------
(* Spec: the server, one upload, and one external worker *)

ServerIds == {"u1"}
ServerStatus == {"VERIFYING", "FINISHED"}
ServerBodies == {<<>>, <<1>>, <<1, 1>>}
ServerWorkers == {"w1"}
ServerPuts == {"p1"}
ServerSizes == {0, 1} \cup TooLarge
ServerNews == {"n1"}
ServerOffsets == {0, 1, 2}

Init ==
    /\ now = Epoch
    /\ uploads = [id \in {} |-> NoRow]
    /\ files = [id \in {} |-> <<>>]
    /\ InitProcs

Next ==
    \/ \E n \in ServerNews, id \in ServerIds, size \in ServerSizes,
          create_ok \in BOOLEAN, reserve_ok \in BOOLEAN :
          NewUploadFile(n, id, size, "pl", "pa", create_ok, reserve_ok)
    \/ \E n \in ServerNews, db_ok \in BOOLEAN : NewUploadRow(n, db_ok)
    \/ \E p \in ServerPuts, id \in ServerIds, offset \in ServerOffsets,
          body \in ServerBodies : PutRead(p, id, offset, body)
    \/ \E p \in ServerPuts : PutEnter(p)
    \/ \E p \in ServerPuts : PutWrite(p)
    \/ \E p \in ServerPuts : PutChunk(p)
    \/ \E p \in ServerPuts : ChunkReadFailed(p)
    \/ \E f \in FinHandlers, id \in ServerIds : FinishRead(f, id)
    \/ \E f \in FinHandlers : FinishLock(f)
    \/ \E f \in FinHandlers : FinishRow(f)
    \/ \E w \in ServerWorkers, st \in Status :
          CheckOutSelect(w, "pa", "pl", st, FALSE)
    \/ \E w \in ServerWorkers : CheckOutUpdate(w)
    \/ \E w \in ServerWorkers, st \in ServerStatus : ChangeStatus(w, st)
    \/ \E w \in ServerWorkers : DropRow(w)
    \/ \E p \in ServerNews \cup ServerPuts \cup FinHandlers \cup ServerWorkers :
          Respond(p)

Spec == Init /\ [][Next]_vars

----------------------------------------------------------------------------
(* SpecFile: write_to_file on the file of one upload, any offset, any body *)

FileWriters == {"p1"}

InitFile ==
    /\ now = Epoch
    /\ \E size \in 0..MaxSize :
         /\ uploads = [id \in ServerIds |-> NewRow(id, size, "pl", "pa", Epoch)]
         /\ files = [id \in ServerIds |-> Allocated(size)]
    /\ InitProcs

NextFile ==
    \/ \E p \in FileWriters, id \in ServerIds, offset \in 0..MaxSize,
          body \in Bodies : WriteToFile(p, id, offset, body)
    \/ \E p \in FileWriters : PutChunk(p)
    \/ \E p \in FileWriters : ChunkReadFailed(p)
    \/ \E p \in FileWriters : Respond(p)

SpecFile == InitFile /\ [][NextFile]_vars

----------------------------------------------------------------------------
(* SpecCover: the client's file is sent as in-bounds ranges, in any order, each
   range coming in as incoming byte ranges of any lengths *)

InitCover ==
    /\ now = Epoch
    /\ \E size \in 0..MaxSize :
         /\ uploads = [id \in ServerIds |-> NewRow(id, size, "pl", "pa", Epoch)]
         /\ files = [id \in ServerIds |-> Allocated(size)]
         /\ orig \in [1..size -> Byte]
    /\ pc = [p \in Procs |-> "idle"]
    /\ loc = [p \in Procs |-> Idle]
    /\ resp = [p \in Procs |-> "-"]
    /\ locks = {}
    /\ fresh = [id \in Ids |-> {}]
    /\ ranges = {}
    /\ feeds = [s \in Subscribers |-> NoFeed]
    /\ durable = [id \in {} |-> <<>>]

\* write_to_file(offset, body), the body being bytes offset..offset+length of
\* the client's file.
CoverWrite(p, id, offset, length) ==
    /\ offset + length <= Len(orig)
    /\ WriteToFile(p, id, offset, SubSeq(orig, offset + 1, offset + length))

\* A turn of the loop; a call that returns Ok has written its range.
CoverChunk(p) ==
    /\ WriteChunk(p)
    /\ ranges' = IF loc[p].body = <<>>
                 THEN ranges \cup {<<loc[p].offset, loc[p].pos - loc[p].offset>>}
                 ELSE ranges

NextCover ==
    \/ \E p \in FileWriters, id \in ServerIds, offset \in 0..MaxSize,
          length \in 0..MaxSize : CoverWrite(p, id, offset, length)
    \/ \E p \in FileWriters : CoverChunk(p)
    \/ \E p \in FileWriters : Respond(p)

SpecCover == InitCover /\ [][NextCover]_vars

----------------------------------------------------------------------------
(* SpecNewFile: new_file and delete_file called on a directory that holds the
   written file of an earlier upload, as in tests::test_create_delete,
   tests::test_file_exclusivity and tests::test_zero_size_file *)

NewFileSizes == 0..MaxSize \cup TooLarge

\* new_file is called with an id and a size.
NewFileCall(p, id, with_size) ==
    /\ pc[p] = "idle"
    /\ pc' = [pc EXCEPT ![p] = "new_file"]
    /\ loc' = [loc EXCEPT ![p] = [row |-> NoRow, id |-> id, with_size |-> with_size]]
    /\ UNCHANGED <<now, uploads, files, locks, resp, fresh,
                   orig, feeds, durable, ranges>>

\* new_file runs and returns.
NewFileRun(p, create_ok, reserve_ok) ==
    /\ pc[p] = "new_file"
    /\ LET r == new_file(files, loc[p].id, loc[p].with_size, create_ok, reserve_ok) IN
       /\ files' = r.files
       /\ Return(p, r.res)
    /\ UNCHANGED <<now, uploads, locks, fresh, orig, feeds, durable, ranges>>

\* delete_file(path, id); remove_file fails on a file that does not exist.
DeleteFile(p, id) ==
    /\ pc[p] = "idle"
    /\ IF id \in DOMAIN files
       THEN /\ files' = delete_file(files, id)
            /\ Return(p, "Ok")
       ELSE /\ Return(p, "NotFound")
            /\ UNCHANGED files
    /\ UNCHANGED <<now, uploads, locks, fresh, orig, feeds, durable, ranges>>

InitNewFile ==
    /\ now = Epoch
    /\ uploads = [id \in {} |-> NoRow]
    /\ \E n \in 0..MaxSize : \E bytes \in [1..n -> Byte] :
          files = [id \in ServerIds |-> bytes]
    /\ InitProcs

NextNewFile ==
    \/ \E p \in NewHandlers, id \in Ids, with_size \in NewFileSizes :
          NewFileCall(p, id, with_size)
    \/ \E p \in NewHandlers, create_ok \in BOOLEAN, reserve_ok \in BOOLEAN :
          NewFileRun(p, create_ok, reserve_ok)
    \/ \E p \in NewHandlers, id \in Ids : DeleteFile(p, id)
    \/ \E p \in NewHandlers : Respond(p)

SpecNewFile == InitNewFile /\ [][NextNewFile]_vars

----------------------------------------------------------------------------
(* SpecEvents: one upload, initialised one clock step ago, with a client that
   reads it and subscribes to its status, a chunk PUT, a finish request and a
   worker *)

MaxEvents == 5     \* changes of the row one changefeed records

\* Every open feed has room for one more change.
FeedRoom == \A sub \in Subscribers : Len(feeds[sub].committed) < MaxEvents

EventStatus == {"FINISHED"}

InitEvents ==
    /\ now = Epoch + TickLen
    /\ uploads = [id \in ServerIds |-> NewRow(id, 0, "pl", "pa", Epoch)]
    /\ files = [id \in ServerIds |-> Allocated(0)]
    /\ InitProcs

NextEvents ==
    \/ \E g \in Subscribers, id \in Ids : GetUpload(g, id)
    \/ \E sub \in Subscribers, id \in Ids : SubscribeRead(sub, id)
    \/ \E sub \in Subscribers : SubscribeOpen(sub)
    \/ \E sub \in Subscribers : Emit(sub)
    \/ \E sub \in Subscribers : CloseEvents(sub)
    \/ \E p \in ServerPuts, id \in ServerIds : PutRead(p, id, 0, <<>>)
    \/ \E p \in ServerPuts : FeedRoom /\ PutEnter(p)
    \/ \E p \in ServerPuts : PutWrite(p)
    \/ \E p \in ServerPuts : PutChunk(p)
    \/ \E f \in {"f1"}, id \in ServerIds : FinishRead(f, id)
    \/ \E f \in {"f1"} : FinishLock(f)
    \/ \E f \in {"f1"} : FeedRoom /\ FinishRow(f)
    \/ \E w \in ServerWorkers, st \in Status, processing \in BOOLEAN :
          CheckOutSelect(w, "pa", "pl", st, processing)
    \/ \E w \in ServerWorkers : FeedRoom /\ CheckOutUpdate(w)
    \/ \E w \in ServerWorkers, st \in EventStatus : FeedRoom /\ ChangeStatus(w, st)
    \/ \E w \in ServerWorkers : DropRow(w)
    \/ \E p \in Subscribers \cup ServerPuts \cup {"f1"} \cup ServerWorkers :
          Respond(p)

SpecEvents == InitEvents /\ [][NextEvents]_vars

----------------------------------------------------------------------------
(* SpecCrash: the client's file is sent as in-bounds ranges to a server that can
   crash; a turn of write_to_file's loop is taken in its two parts, the write
   and the flush and sync *)

InitCrash ==
    /\ now = Epoch
    /\ \E size \in 0..MaxSize :
         /\ uploads = [id \in ServerIds |-> NewRow(id, size, "pl", "pa", Epoch)]
         /\ files = [id \in ServerIds |-> Allocated(size)]
         /\ durable = [id \in ServerIds |-> Allocated(size)]
         /\ orig \in [1..size -> Byte]
    /\ pc = [p \in Procs |-> "idle"]
    /\ loc = [p \in Procs |-> Idle]
    /\ resp = [p \in Procs |-> "-"]
    /\ locks = {}
    /\ fresh = [id \in Ids |-> {}]
    /\ ranges = {}
    /\ feeds = [s \in Subscribers |-> NoFeed]

\* body.next(), the bounds test and file.write_all(chunk): the bytes are in the
\* file, not yet on stable storage.  At the end of the body the call returns Ok
\* and its range counts as acknowledged.
WriteAllChunk(p) ==
    /\ pc[p] = "write"
    /\ LET l == loc[p] IN
       IF l.body = <<>>
       THEN /\ Return(p, "Ok")
            /\ locks' = Dropped(locks, p)
            /\ ranges' = ranges \cup {<<l.offset, l.pos - l.offset>>}
            /\ UNCHANGED files
       ELSE \E n \in 1..Min(MaxChunkLen, Len(l.body)) :
            LET chunk == SubSeq(l.body, 1, n) IN
            IF ExceedsBounds(l.offset, chunk, l.size)
            THEN /\ Return(p, "I/O error")
                 /\ locks' = Dropped(locks, p)
                 /\ UNCHANGED <<files, ranges>>
            ELSE /\ files' = [files EXCEPT ![l.id] = WriteAll(@, l.pos, chunk)]
                 /\ pc' = [pc EXCEPT ![p] = "sync"]
                 /\ loc' = [loc EXCEPT ![p].pos = @ + n,
                                       ![p].body = SubSeq(@, n + 1, Len(@))]
                 /\ UNCHANGED <<resp, locks, ranges>>
    /\ UNCHANGED <<now, uploads, fresh, orig, feeds, durable>>

\* file.flush() and file.sync_all() of the same turn.
SyncAllChunk(p) ==
    /\ pc[p] = "sync"
    /\ durable' = sync_all(durable, loc[p].id, files[loc[p].id])
    /\ pc' = [pc EXCEPT ![p] = "write"]
    /\ UNCHANGED <<now, uploads, files, locks, loc, resp, fresh, orig, ranges, feeds>>

\* The server crashes and comes back: its requests and locks are gone, the files
\* hold what was on stable storage.
Crash ==
    /\ files' = Recovered(files, durable)
    /\ pc' = [p \in Procs |-> "idle"]
    /\ loc' = [p \in Procs |-> Idle]
    /\ resp' = [p \in Procs |-> "-"]
    /\ locks' = {}
    /\ UNCHANGED <<now, uploads, fresh, orig, ranges, feeds, durable>>

NextCrash ==
    \/ \E p \in FileWriters, id \in ServerIds, offset \in 0..MaxSize,
          length \in 0..MaxSize : CoverWrite(p, id, offset, length)
    \/ \E p \in FileWriters : WriteAllChunk(p)
    \/ \E p \in FileWriters : SyncAllChunk(p)
    \/ \E p \in FileWriters : Respond(p)
    \/ Crash

SpecCrash == InitCrash /\ [][NextCrash]_vars

----------------------------------------------------------------------------
(* client/src/main.rs: one run of the upload client.  The server is the
   environment: every request gets any of the answers a server can give, every
   read of the events stream any status, the end of the stream or an error *)

\* What one HTTP step can come back with: the payload asked for, a transport
\* error (reqwest), or an error answer of the server.
Responses == {"Ok", "Transport", "Locked", "WrongStatus", "NotFound", "ExceededBounds"}

\* What one read of the events stream yields besides a status.
StreamEnds == {"EOF", "ReadError"}

\* sleep(Duration::from_secs(1 << i))
Backoff(i) == 2 ^ i

\* An offset that advances by the size of a full chunk.
NextOffsetFullChunk(offset, l) == offset + MaxChunkLen

\* iter_file: offset += l
NextOffset(offset, l) == offset + l

\* A loop that makes one attempt more.
TriesLeftOneMore(i) == i < MAX_TRIES + 1

\* try_something!: for i in 0..MAX_TRIES
TriesLeft(i) == i < MAX_TRIES

\* A test that gives up one failure earlier.
SubscribeGivesUpEarly(tries) == tries >= SubscribeTries

\* iter_file: if tries > 12 { Err(e)? }
SubscribeGivesUp(tries) == tries > SubscribeTries

\* A loop that runs the upload once more.
UploadsLeftOneMore(i) == i <= UploadTries

\* main: for i in 0..5
UploadsLeft(i) == i < UploadTries

\* A dispatch that treats FAILED_VERIFY as the other failures.
DispatchVerifyAsError(s) ==
    IF s = "FINISHED" THEN "success"
    ELSE IF s \in {"FAILED_CHECKSUM", "FAILED_OTHER", "FAILED_VERIFY"} THEN "error"
    ELSE "continue"

\* iter_file: what the wait loop does with a status it receives.
Dispatch(s) ==
    IF s = "FINISHED" THEN "success"
    ELSE IF s = "FAILED_CHECKSUM" \/ s = "FAILED_OTHER" THEN "error"
    ELSE IF s = "FAILED_VERIFY" THEN "verify"
    ELSE "continue"

\* The locals of main, upload_file and iter_file:
\*   i          main's loop variable
\*   step       the HTTP step under way: "init", "chunk" or "finish"
\*   attempt    try_something!'s loop variable
\*   remaining, offset   iter_file's bytes_remaining and offset
\*   chunk      the length of the chunk read by read_chunk and being sent
\*   acked      (history) the lengths of the chunks whose PUT was answered Ok
\*   tries, status   iter_file's tries and current_status
\*   display    the last value sent to the progress task
\*   task       the refresh_bar task spawned by this iter_file call: "none",
\*              "running" or "returned"
\*   leaked     refresh_bar tasks of earlier iter_file calls still running
\*   slept      the sleep under way, in seconds
\*   outcome    what upload_file returned, then what main returns
ClientLocals(size) ==
    [row |-> NoRow, size |-> size, i |-> 0, step |-> "init", attempt |-> 0,
     remaining |-> size, offset |-> 0, chunk |-> 0, acked |-> <<>>,
     tries |-> 0, status |-> "", display |-> "",
     task |-> "none", leaked |-> 0, slept |-> 0, outcome |-> ""]

\* main is started on a file of some size.
ClientStart(c, size) ==
    /\ pc[c] = "idle"
    /\ pc' = [pc EXCEPT ![c] = "upload_file"]
    /\ loc' = [loc EXCEPT ![c] = ClientLocals(size)]
    /\ UNCHANGED <<now, uploads, files, locks, resp, fresh, orig, ranges, feeds,
                   durable>>

\* upload_file is entered: get_file_metadata, then Upload::new.  A refresh_bar
\* task the previous call left running keeps running.
UploadFile(c, meta_ok) ==
    /\ pc[c] = "upload_file"
    /\ LET l == loc[c]
           fresh_locals ==
               [l EXCEPT !.step = "init", !.attempt = 0, !.remaining = l.size,
                         !.offset = 0, !.chunk = 0, !.acked = <<>>,
                         !.tries = 0, !.status = "", !.display = "",
                         !.task = "none", !.outcome = "",
                         !.leaked = IF l.task = "running" THEN @ + 1 ELSE @]
       IN IF meta_ok
          THEN /\ pc' = [pc EXCEPT ![c] = "try"]
               /\ loc' = [loc EXCEPT ![c] = fresh_locals]
          ELSE /\ pc' = [pc EXCEPT ![c] = "retry"]
               /\ loc' = [loc EXCEPT ![c] =
                            [fresh_locals EXCEPT !.outcome = "Err",
                                                 !.slept = Backoff(l.i)]]
    /\ resp' = [resp EXCEPT ![c] = "-"]
    /\ UNCHANGED <<now, uploads, files, locks, fresh, orig, ranges, feeds, durable>>

\* One attempt of the HTTP step under way (post / put and process_response).
\* Ok ends the step: after a chunk, offset += l and bytes_remaining -= l; after
\* init and after a chunk, while bytes remain, read_chunk reads the next chunk
\* (some bytes, no more than remain in the file) and its PUT is the next step,
\* otherwise finish is; after finish the refresh_bar task is spawned and the
\* wait loop entered.  Any other answer is an Err:
\* try_something! goes to sleep(1 << i).
TryAttempt(c, response) ==
    /\ pc[c] = "try"
    /\ resp' = [resp EXCEPT ![c] = response]
    /\ LET l == loc[c] IN
       IF response # "Ok"
       THEN /\ pc' = [pc EXCEPT ![c] = "backoff"]
            /\ loc' = [loc EXCEPT ![c].slept = Backoff(l.attempt)]
       ELSE IF l.step = "finish"
       THEN /\ pc' = [pc EXCEPT ![c] = "subscribe"]
            /\ loc' = [loc EXCEPT ![c].task = "running",
                                  ![c].display = "Making request...",
                                  ![c].attempt = 0]
       ELSE LET sent == IF l.step = "init" THEN 0 ELSE l.chunk
                after ==
                    IF l.step = "init"
                    THEN [l EXCEPT !.attempt = 0]
                    ELSE [l EXCEPT !.attempt = 0,
                                   !.offset = NextOffset(l.offset, sent),
                                   !.remaining = @ - sent,
                                   !.acked = Append(@, sent)]
            IN /\ pc' = pc
               /\ IF after.remaining > 0
                  THEN \E n \in 1..Min(MaxChunkLen, after.remaining) :
                       loc' = [loc EXCEPT ![c] =
                                 [after EXCEPT !.step = "chunk", !.chunk = n]]
                  ELSE loc' = [loc EXCEPT ![c] =
                                 [after EXCEPT !.step = "finish", !.chunk = 0]]
    /\ UNCHANGED <<now, uploads, files, locks, fresh, orig, ranges, feeds, durable>>

\* The sleep of try_something! is over: the next attempt, or, the loop being
\* done, bail!("max tries reached").
WakeTry(c) ==
    /\ pc[c] = "backoff"
    /\ resp' = [resp EXCEPT ![c] = "-"]
    /\ IF TriesLeft(loc[c].attempt + 1)
       THEN /\ pc' = [pc EXCEPT ![c] = "try"]
            /\ loc' = [loc EXCEPT ![c].attempt = @ + 1, ![c].slept = 0]
       ELSE /\ pc' = [pc EXCEPT ![c] = "retry"]
            /\ loc' = [loc EXCEPT ![c].attempt = @ + 1, ![c].outcome = "Err",
                                  ![c].slept = Backoff(loc[c].i)]
    /\ UNCHANGED <<now, uploads, files, locks, fresh, orig, ranges, feeds, durable>>

\* iter_file's wait loop: upload.subscribe(client).  A failure goes to
\* sleep(1 << tries).
Subscribe(c, ok) ==
    /\ pc[c] = "subscribe"
    /\ IF ok
       THEN /\ pc' = [pc EXCEPT ![c] = "stream"]
            /\ resp' = [resp EXCEPT ![c] = "Ok"]
            /\ UNCHANGED loc
       ELSE /\ pc' = [pc EXCEPT ![c] = "resubscribe"]
            /\ resp' = [resp EXCEPT ![c] = "Transport"]
            /\ loc' = [loc EXCEPT ![c].slept = Backoff(loc[c].tries)]
    /\ UNCHANGED <<now, uploads, files, locks, fresh, orig, ranges, feeds, durable>>

\* The sleep after a failed subscription is over: tries += 1, then the hard
\* failure or the next subscription.
WakeSubscribe(c) ==
    /\ pc[c] = "resubscribe"
    /\ resp' = [resp EXCEPT ![c] = "-"]
    /\ IF SubscribeGivesUp(loc[c].tries + 1)
       THEN /\ pc' = [pc EXCEPT ![c] = "retry"]
            /\ loc' = [loc EXCEPT ![c].tries = @ + 1, ![c].outcome = "Err",
                                  ![c].slept = Backoff(loc[c].i)]
       ELSE /\ pc' = [pc EXCEPT ![c] = "subscribe"]
            /\ loc' = [loc EXCEPT ![c].tries = @ + 1, ![c].slept = 0]
    /\ UNCHANGED <<now, uploads, files, locks, fresh, orig, ranges, feeds, durable>>

\* stream.next(): a status, or the end of the stream (None, or an Err item),
\* which ends the inner loop and leads to the next subscription.
StreamNext(c, ev) ==
    /\ pc[c] = "stream"
    /\ resp' = [resp EXCEPT ![c] = ev]
    /\ IF ev \in StreamEnds
       THEN /\ pc' = [pc EXCEPT ![c] = "subscribe"]
            /\ UNCHANGED loc
       ELSE LET d == Dispatch(ev) IN
            IF d = "success"
            THEN /\ pc' = [pc EXCEPT ![c] = "join"]
                 /\ loc' = [loc EXCEPT ![c].status = ev]
            ELSE IF d = "error"
            THEN /\ pc' = [pc EXCEPT ![c] = "retry"]
                 /\ loc' = [loc EXCEPT ![c].status = ev, ![c].outcome = "Err",
                                       ![c].slept = Backoff(loc[c].i)]
            ELSE IF d = "verify"
            THEN /\ pc' = [pc EXCEPT ![c] = "retry"]
                 /\ loc' = [loc EXCEPT ![c].status = ev,
                                       ![c].outcome = "Ok(Err(()))",
                                       ![c].slept = Backoff(loc[c].i)]
            ELSE /\ pc' = pc
                 /\ loc' = [loc EXCEPT ![c].status = ev, ![c].display = ev]
    /\ UNCHANGED <<now, uploads, files, locks, fresh, orig, ranges, feeds, durable>>

\* After the wait loop: token.cancel(), f.await (refresh_bar returns), and
\* iter_file, upload_file and main return Ok.
Join(c) ==
    /\ pc[c] = "join"
    /\ pc' = [pc EXCEPT ![c] = "exit"]
    /\ loc' = [loc EXCEPT ![c].task = "returned", ![c].outcome = "Ok(Ok(()))"]
    /\ UNCHANGED <<now, uploads, files, locks, resp, fresh, orig, ranges, feeds,
                   durable>>

\* main's sleep(1 << i) after an upload_file that did not succeed is over: the
\* next turn of the loop, or bail!("upload failure").
WakeMain(c) ==
    /\ pc[c] = "retry"
    /\ IF UploadsLeft(loc[c].i + 1)
       THEN /\ pc' = [pc EXCEPT ![c] = "upload_file"]
            /\ loc' = [loc EXCEPT ![c].i = @ + 1, ![c].slept = 0]
       ELSE /\ pc' = [pc EXCEPT ![c] = "exit"]
            /\ loc' = [loc EXCEPT ![c].i = @ + 1, ![c].slept = 0,
                                  ![c].outcome = "upload failure"]
    /\ UNCHANGED <<now, uploads, files, locks, resp, fresh, orig, ranges, feeds,
                   durable>>

InitClient ==
    /\ now = Epoch
    /\ uploads = [id \in {} |-> NoRow]
    /\ files = [id \in {} |-> <<>>]
    /\ InitProcs

NextClient ==
    \/ \E c \in Clients, size \in 0..MaxSize : ClientStart(c, size)
    \/ \E c \in Clients, meta_ok \in BOOLEAN : UploadFile(c, meta_ok)
    \/ \E c \in Clients, response \in Responses : TryAttempt(c, response)
    \/ \E c \in Clients : WakeTry(c)
    \/ \E c \in Clients, ok \in BOOLEAN : Subscribe(c, ok)
    \/ \E c \in Clients : WakeSubscribe(c)
    \/ \E c \in Clients, ev \in Status \cup StreamEnds : StreamNext(c, ev)
    \/ \E c \in Clients : Join(c)
    \/ \E c \in Clients : WakeMain(c)

SpecClient == InitClient /\ [][NextClient]_vars

\* A read of the events stream that ends the inner loop of the wait: a terminal
\* status, the end of the stream, or an error.
StreamOver(c) ==
    \E ev \in StreamEnds \cup {"FINISHED"} \cup UploadError : StreamNext(c, ev)

\* The client runs on while it has a step to take, and no events stream goes
\* on for ever: the server closes it or the connection breaks.
SpecClientFair ==
    SpecClient /\ WF_vars(NextClient) /\ \A c \in Clients : WF_vars(StreamOver(c))

----------------------------------------------------------------------------
(* SpecWriters: two write_to_file calls and finish requests on the file of one
   upload *)

WriterFins == {"f1"}

InitWriters ==
    /\ now = Epoch
    /\ uploads = [id \in ServerIds |-> NewRow(id, 1, "pl", "pa", Epoch)]
    /\ files = [id \in ServerIds |-> Allocated(1)]
    /\ InitProcs

NextWriters ==
    \/ \E p \in PutHandlers, id \in ServerIds, offset \in 0..1,
          body \in ServerBodies : WriteToFile(p, id, offset, body)
    \/ \E p \in PutHandlers : PutChunk(p)
    \/ \E p \in PutHandlers : ChunkReadFailed(p)
    \/ \E f \in WriterFins, id \in ServerIds : FinishRead(f, id)
    \/ \E f \in WriterFins : FinishLock(f)
    \/ \E f \in WriterFins : FinishRow(f)
    \/ \E p \in PutHandlers \cup WriterFins : Respond(p)

SpecWriters == InitWriters /\ [][NextWriters]_vars

----------------------------------------------------------------------------
(* SpecRecords: records are inserted, also under ids that exist, and used by
   one worker through every operation of the store *)

RecordWorkers == {"w1"}
RecordSizes == {0, 1}

InitRecords ==
    /\ now = Epoch
    /\ uploads = [id \in StoreIds |-> NewRow(id, 1, "pl", "pa", Epoch)]
    /\ files = [id \in StoreIds |-> <<0>>]
    /\ InitProcs

NextRecords ==
    \/ Tick
    \/ \E w \in RecordWorkers, id \in Ids, size \in RecordSizes, pr \in Projects,
          db_ok \in BOOLEAN : NewRecord(w, id, size, "pl", pr, db_ok)
    \/ \E w \in RecordWorkers, id \in Ids : FromDatabase(w, id)
    \/ \E w \in RecordWorkers, pr \in Projects, st \in StoreStatus,
          processing \in BOOLEAN : CheckOutSelect(w, pr, "pl", st, processing)
    \/ \E w \in RecordWorkers : CheckOutUpdate(w)
    \/ \E w \in RecordWorkers : Finish(w)
    \/ \E w \in RecordWorkers : Enter(w)
    \/ \E w \in RecordWorkers, st \in StoreStatus : ChangeStatus(w, st)
    \/ \E w \in RecordWorkers : DropRow(w)
    \/ \E w \in RecordWorkers : Respond(w)

SpecRecords == InitRecords /\ [][NextRecords]_vars

----------------------------------------------------------------------------
(* SpecLock: handles on one file that lock it and are dropped, as in
   tests::test_locks *)

\* OpenOptions::open / File::open
OpenFile(h) ==
    /\ pc[h] = "idle"
    /\ pc' = [pc EXCEPT ![h] = "open"]
    /\ UNCHANGED <<now, uploads, files, locks, loc, resp,
                   fresh, orig, feeds, durable, ranges>>

\* files::acquire_lock(&mut file, exclusive) on an open handle without a lock
AcquireLock(h, id, exclusive) ==
    /\ pc[h] = "open"
    /\ \A l \in locks : l.handle # h
    /\ loc' = [loc EXCEPT ![h] = [row |-> NoRow, exclusive |-> exclusive]]
    /\ IF acquire_lock(locks, h, id, exclusive)
       THEN /\ locks' = locks \cup {Lock(h, id, exclusive)}
            /\ resp' = [resp EXCEPT ![h] = "Ok"]
       ELSE /\ resp' = [resp EXCEPT ![h] = "file is locked"]
            /\ UNCHANGED locks
    /\ UNCHANGED <<now, uploads, files, pc, fresh, orig, feeds, durable, ranges>>

\* mem::drop(file)
DropFile(h) ==
    /\ pc[h] = "open"
    /\ pc' = [pc EXCEPT ![h] = "idle"]
    /\ loc' = [loc EXCEPT ![h] = Idle]
    /\ resp' = [resp EXCEPT ![h] = "-"]
    /\ locks' = Dropped(locks, h)
    /\ UNCHANGED <<now, uploads, files, fresh, orig, feeds, durable, ranges>>

NextLock ==
    \/ \E h \in LockHandles : OpenFile(h)
    \/ \E h \in LockHandles, id \in ServerIds, exclusive \in BOOLEAN :
          AcquireLock(h, id, exclusive)
    \/ \E h \in LockHandles : DropFile(h)

SpecLock == InitFile /\ [][NextLock]_vars

----------------------------------------------------------------------------
(* Claims *)

\* C1: of the check_out calls with processing = false that race for a row, at
\* most one is returned the row; the row goes to a second caller only after
\* change_status has cleared its processing flag.
C1_ClaimedOnce == \A id \in DOMAIN uploads : Cardinality(fresh[id]) <= 1

\* Two callers sampled the same unclaimed row; the first has it, the second is
\* about to apply its update to the row, now claimed.
C1_Witness ==
    \E w1, w2 \in Workers :
        /\ w1 # w2
        /\ pc[w1] = "row" /\ resp[w1] = "Some"
        /\ pc[w2] = "check_out" /\ ~loc[w2].processing
        /\ loc[w2].sel = loc[w1].row.id
        /\ fresh[loc[w2].sel] = {w1}
        /\ uploads[loc[w2].sel].processing

\* C2: a finish request whose row is no longer UPLOADING when the handler calls
\* row.finish() answers WrongStatus and leaves the stored status as it is.
C2_FinishOnlyFromUploading ==
    [][\A f \in FinHandlers :
         (pc[f] = "finish" /\ pc'[f] = "done"
            /\ uploads[loc[f].row.id].status # "UPLOADING")
         => /\ resp'[f] = "Wrong status"
            /\ uploads'[loc[f].row.id].status = uploads[loc[f].row.id].status]_vars

\* C3: for one upload, without a reset to UPLOADING, no two finish requests
\* both return success.
C3_FinishSucceedsOnce ==
    Cardinality({f \in FinHandlers : pc[f] = "done" /\ resp[f] = "Ok"}) <= 1

\* C4: no step takes the status of a row that has left UPLOADING back to
\* UPLOADING.
C4_NeverBackToUploading ==
    [][\A id \in DOMAIN uploads :
         uploads[id].status # "UPLOADING" => uploads'[id].status # "UPLOADING"]_vars

\* C5: no step changes a terminal status.
C5_TerminalIsFinal ==
    [][\A id \in DOMAIN uploads :
         uploads[id].status \in Terminal => uploads'[id].status = uploads[id].status]_vars

\* C6: the step in which a finish handler takes the row out of UPLOADING starts
\* in a state where the handler holds the exclusive lock on the file, no other
\* lock on the file is held and no write_to_file call is in its loop.
C6_FinishUnderExclusiveLock ==
    [][\A f \in FinHandlers :
         (pc[f] = "finish" /\ pc'[f] = "done" /\ resp'[f] = "Ok")
         => LET id == loc[f].row.id IN
            /\ Lock(f, id, TRUE) \in locks
            /\ \A l \in locks : l.id = id => l.handle = f
            /\ \A p \in PutHandlers : pc[p] = "write" => loc[p].id # id]_vars

\* A finish has gone through while a chunk PUT of the same upload, past
\* row.enter(), has yet to open and lock the file.
C6_Witness ==
    \E f \in FinHandlers, p \in PutHandlers :
        /\ pc[f] = "done" /\ resp[f] = "Ok"
        /\ pc[p] = "open"
        /\ uploads[loc[p].row.id].status = "VERIFYING"

\* C7: a write_to_file call whose offset plus whole body length exceeds the size
\* never changes the file and ends with an error.
C7_OutOfBoundsLeavesFile ==
    [][\A p \in FileWriters :
         (pc[p] = "write" /\ loc[p].pos + Len(loc[p].body) > loc[p].size
            /\ <<pc[p], loc[p]>> # <<pc'[p], loc'[p]>>)
         => /\ files' = files
            /\ pc'[p] = "done" => resp'[p] = "I/O error"]_vars

\* C8: the backing file is as long as the size declared at creation.
C8_FileLengthFixed ==
    \A id \in DOMAIN files \cap DOMAIN uploads : Len(files[id]) = uploads[id].size

\* C9: once the ranges written by the write_to_file calls that returned Ok cover
\* [0, size) and no call is under way, the file holds the client's bytes.
C9_CoverYieldsOriginal ==
    \A id \in DOMAIN files :
        (/\ \A p \in FileWriters : pc[p] # "write"
         /\ \A i \in 0..(Len(orig) - 1) :
               \E r \in ranges : r[1] <= i /\ i < r[1] + r[2])
        => files[id] = orig

\* The file was covered by more than one range, none of them the whole file.
C9_Witness ==
    /\ Len(orig) = MaxSize
    /\ \A p \in FileWriters : pc[p] = "done" /\ resp[p] = "Ok"
    /\ \A i \in 0..(Len(orig) - 1) : \E r \in ranges : r[1] <= i /\ i < r[1] + r[2]
    /\ \A r \in ranges : r[2] < Len(orig)
    /\ files["u1"] = orig

\* C10: an exclusive lock is the only lock on its file; a request is granted
\* exactly when no other handle holds a conflicting lock: exclusive when no other
\* lock is held, shared when no exclusive lock is held.
C10_LockDiscipline ==
    [][/\ \A l1, l2 \in locks' :
             (l1.id = l2.id /\ l1.exclusive) => l1 = l2
       /\ \A h \in LockHandles :
             (pc[h] = "open" /\ pc'[h] = "open" /\ <<loc[h], resp[h]>> # <<loc'[h], resp'[h]>>)
             => LET others == {l \in locks : l.handle # h}
                    granted == /\ resp'[h] = "Ok"
                               /\ \E l \in locks' \ locks :
                                     l.handle = h /\ l.exclusive = loc'[h].exclusive
                    refused == resp'[h] = "file is locked" /\ locks' = locks
                IN IF loc'[h].exclusive
                   THEN IF others = {} THEN granted ELSE refused
                   ELSE IF \E l \in others : l.exclusive THEN refused ELSE granted]_vars

\* Two shared locks are held together and an exclusive request has been refused.
C10_Witness ==
    \E h1, h2, h3 \in LockHandles :
        /\ h1 # h2
        /\ Lock(h1, "u1", FALSE) \in locks /\ Lock(h2, "u1", FALSE) \in locks
        /\ pc[h3] = "open" /\ resp[h3] = "file is locked" /\ loc[h3].exclusive

C12_ExistingFileUntouched ==
    [][\A p \in NewHandlers :
         (pc[p] = "new_file" /\ pc'[p] = "done" /\ loc[p].id \in DOMAIN files)
         => /\ resp'[p] # "Ok"
            /\ files' = files]_vars

\* new_file was refused on the id of a file that holds written bytes.
C12_Witness ==
    \E p \in NewHandlers :
        /\ pc[p] = "done" /\ resp[p] = "AlreadyExists"
        /\ "u1" \in DOMAIN files /\ "u2" \notin DOMAIN files
        /\ Len(files["u1"]) = MaxSize
        /\ \E i \in 1..MaxSize : files["u1"][i] # 0

C14_ReclaimOnlyStale ==
    [][\A w \in Workers :
         (pc[w] = "check_out" /\ loc[w].processing /\ pc'[w] = "row")
         => uploads[loc[w].sel].last_activity < now - Grace]_vars

\* C15: a claimed row whose last_activity is more than 60 seconds old is in the
\* selection of a check_out with processing = true and the row's project,
\* pipeline and status; and the update of such a check_out, finding the row it
\* sampled still claimed and still that old, returns it.
C15_StaleClaimEligible ==
    [][/\ \A id \in DOMAIN uploads :
             (uploads[id].processing /\ uploads[id].last_activity < now - Grace)
             => id \in CheckOutSelection(uploads, uploads[id].project,
                           uploads[id].pipeline, uploads[id].status, TRUE, now)
       /\ \A w \in Workers :
             (/\ pc[w] = "check_out" /\ pc'[w] # "check_out"
              /\ loc[w].processing
              /\ uploads[loc[w].sel].processing
              /\ uploads[loc[w].sel].last_activity < loc[w].stamp - Grace)
             => /\ pc'[w] = "row" /\ resp'[w] = "Some"
                /\ loc'[w].row.id = loc[w].sel
                /\ uploads'[loc[w].sel].last_activity = loc[w].stamp]_vars

\* A worker holds a row that another worker had claimed fresh and that has not
\* been released since: it got it by a check_out with processing = true.
C15_Witness ==
    \E w, w2 \in Workers :
        /\ w # w2
        /\ fresh["u1"] = {w2}
        /\ pc[w] = "row" /\ resp[w] = "Some"
        /\ loc[w].row = uploads["u1"]
        /\ uploads["u1"].last_activity > Epoch + Grace

\* C16: when check_out returns Some(row), the stored row then has processing =
\* true and last_activity = the time of the claim, the returned row is the stored
\* row after the update, and no other row has changed; when check_out returns
\* None, no row has changed.
C16_CheckOutResult ==
    [][\A w \in Workers :
         /\ (pc[w] = "check_out" /\ pc'[w] = "row")
            => LET id == loc[w].sel IN
               /\ resp'[w] = "Some"
               /\ uploads'[id].processing
               /\ uploads'[id].last_activity = loc[w].stamp
               /\ loc'[w].row = uploads'[id]
               /\ \A i \in DOMAIN uploads \ {id} : uploads'[i] = uploads[i]
         /\ (pc[w] \in {"idle", "check_out"} /\ pc'[w] = "done" /\ resp'[w] = "None")
            => uploads' = uploads]_vars

\* One caller has been returned the row as stored; another, which had sampled the
\* same row, has been returned None.
C16_Witness ==
    \E w1, w2 \in Workers :
        /\ pc[w1] = "row" /\ resp[w1] = "Some"
        /\ loc[w1].row = uploads["u1"]
        /\ uploads["u1"].processing
        /\ pc[w2] = "done" /\ resp[w2] = "None"

\* The sequence without its immediate repetitions.
RECURSIVE Collapse(_)
Collapse(seq) ==
    IF Len(seq) <= 1 THEN seq
    ELSE IF seq[1] = seq[2] THEN Collapse(Tail(seq))
    ELSE <<seq[1]>> \o Collapse(Tail(seq))

\* C17: no two consecutive statuses emitted by a subscription are equal.
C17_NoRepeatedStatus ==
    \A sub \in Subscribers :
        \A i \in 1..(Len(feeds[sub].emitted) - 1) :
            feeds[sub].emitted[i] # feeds[sub].emitted[i + 1]

\* C18: a subscription emits first the status the row had when the feed was
\* opened and then the later statuses in the order of their commits: what it has
\* emitted, repetitions aside, is the start of the row's sequence of statuses,
\* and all of it once every change sent has been taken.
C18_StatusesInOrder ==
    \A sub \in Subscribers :
        feeds[sub].open
        => LET e == Collapse(feeds[sub].emitted)
               c == Collapse(feeds[sub].committed)
           IN /\ feeds[sub].emitted # <<>>
                    => feeds[sub].emitted[1] = feeds[sub].committed[1]
              /\ Len(e) <= Len(c)
              /\ e = SubSeq(c, 1, Len(e))
              /\ feeds[sub].queue = <<>> => e = c

\* The subscriber has seen the whole happy path: a chunk PUT, the finish and a
\* worker that claimed the row and marked it FINISHED.
C18_Witness ==
    \E sub \in Subscribers :
        /\ feeds[sub].queue = <<>>
        /\ Len(feeds[sub].emitted) = MaxEvents
        /\ Collapse(feeds[sub].emitted) = <<"UPLOADING", "VERIFYING", "FINISHED">>

\* C19: a request for an id that has no record is answered NotFound.
C19_UnknownIdNotFound ==
    [][\A p \in ServerPuts \cup FinHandlers :
         (pc[p] = "idle" /\ pc'[p] = "done" /\ DOMAIN uploads = {})
         => resp'[p] = "NotFound"]_vars

C21_StepTriedSevenTimes ==
    [][\A c \in Clients :
         /\ pc[c] = "try" => loc[c].attempt < MAX_TRIES
         /\ (pc[c] = "try" /\ <<pc[c], loc[c]>>' # <<pc[c], loc[c]>>)
            => IF resp'[c] = "Ok"
               THEN /\ pc'[c] \in {"try", "subscribe"}
                    /\ loc'[c].attempt = 0
                    /\ \/ pc'[c] = "subscribe"
                       \/ loc'[c].step # loc[c].step
                       \/ loc'[c].remaining < loc[c].remaining
               ELSE /\ pc'[c] = "backoff"
                    /\ loc[c].attempt \in 0..6
                    /\ loc'[c].slept = 2 ^ loc[c].attempt
         /\ (pc[c] = "backoff" /\ pc'[c] # "backoff")
            => IF loc[c].attempt + 1 < MAX_TRIES
               THEN /\ pc'[c] = "try"
                    /\ loc'[c].attempt = loc[c].attempt + 1
                    /\ loc'[c].step = loc[c].step
                    /\ loc'[c].remaining = loc[c].remaining
               ELSE /\ pc'[c] = "retry"
                    /\ loc'[c].outcome = "Err"]_vars

\* The chunk PUT has failed seven times and the upload has been given up.
C21_Witness ==
    \E c \in Clients :
        /\ pc[c] = "retry"
        /\ loc[c].step = "chunk"
        /\ loc[c].attempt = MAX_TRIES
        /\ loc[c].outcome = "Err"

\* C22: once the events stream has delivered FAILED_VERIFY the client starts no
\* further upload of the file (and so sends no init, chunk or finish request).
C22_NoUploadAfterFailedVerify ==
    [][\A c \in Clients :
         resp[c] = "FAILED_VERIFY" => pc'[c] \notin {"upload_file", "try"}]_vars

\* C23: a WrongStatus, NotFound or out-of-bounds answer to an HTTP step is not
\* followed by the backoff sleep and another attempt.
C23_PermanentFailureNotRetried ==
    [][\A c \in Clients :
         (pc[c] = "try" /\ resp'[c] \in {"WrongStatus", "NotFound", "ExceededBounds"})
         => pc'[c] # "backoff"]_vars

C25_StatusDispatch ==
    [][\A c \in Clients :
         /\ (pc[c] = "stream" /\ <<pc[c], loc[c], resp[c]>>' # <<pc[c], loc[c], resp[c]>>)
            => LET ev == resp'[c] IN
               /\ ev = "FINISHED" => pc'[c] = "join"
               /\ ev \in {"FAILED_CHECKSUM", "FAILED_OTHER"}
                  => pc'[c] = "retry" /\ loc'[c].outcome = "Err"
               /\ ev = "FAILED_VERIFY"
                  => pc'[c] = "retry" /\ loc'[c].outcome = "Ok(Err(()))"
               /\ ev \in Status \ {"FINISHED", "FAILED_CHECKSUM", "FAILED_OTHER",
                                   "FAILED_VERIFY"}
                  => pc'[c] = "stream" /\ loc'[c].display = ev
         /\ (pc[c] = "join" /\ pc'[c] # "join")
            => pc'[c] = "exit" /\ loc'[c].outcome = "Ok(Ok(()))"]_vars

\* A status has been forwarded to the display, then FAILED_VERIFY has ended the
\* wait with the distinguished outcome.
C25_Witness ==
    \E c \in Clients :
        /\ pc[c] = "retry"
        /\ loc[c].status = "FAILED_VERIFY"
        /\ loc[c].outcome = "Ok(Err(()))"
        /\ loc[c].display \in Status

\* C26: a failed subscription is followed by a sleep of 2^tries seconds and
\* another subscription while at most 12 subscriptions have failed; the
\* thirteenth failure ends iter_file with an error, and no subscription is
\* attempted after it.
C26_SubscribeRetries ==
    [][\A c \in Clients :
         /\ pc[c] = "subscribe" => loc[c].tries <= SubscribeTries
         /\ (pc[c] = "subscribe" /\ pc'[c] # "subscribe")
            => \/ pc'[c] = "stream" /\ loc'[c] = loc[c]
               \/ pc'[c] = "resubscribe" /\ loc'[c].slept = 2 ^ loc[c].tries
         /\ (pc[c] = "resubscribe" /\ pc'[c] # "resubscribe")
            => /\ loc'[c].tries = loc[c].tries + 1
               /\ IF loc[c].tries + 1 > 12
                  THEN pc'[c] = "retry" /\ loc'[c].outcome = "Err"
                  ELSE pc'[c] = "subscribe"]_vars

\* The thirteenth subscription has failed and iter_file has returned the error.
C26_Witness ==
    \E c \in Clients :
        /\ pc[c] = "retry"
        /\ loc[c].tries = SubscribeTries + 1
        /\ loc[c].outcome = "Err"

\* C27: the wait loop of iter_file, once entered, is left.
C27_WaitTerminates ==
    \A c \in Clients :
        (pc[c] = "subscribe") ~> (pc[c] \in {"join", "retry", "exit"})

\* C28: when iter_file has returned after a terminal status, the refresh_bar
\* task it spawned is not running any more.
C28_ProgressTaskJoined ==
    \A c \in Clients :
        (/\ pc[c] \in {"retry", "exit"}
         /\ loc[c].status \in {"FINISHED", "FAILED_CHECKSUM", "FAILED_VERIFY",
                               "FAILED_OTHER"})
        => loc[c].task # "running"

\* C29: a row that check_out returns has, when the update marks it claimed, the
\* status the call asked for and the processing flag the call asked for.
C29_ClaimedRowMatchesFilter ==
    [][\A w \in Workers :
         (pc[w] = "check_out" /\ pc'[w] = "row")
         => /\ uploads[loc[w].sel].status = loc[w].status
            /\ uploads[loc[w].sel].processing = loc[w].processing]_vars

\* C30: a check_out with processing = true is not returned a row that another
\* check_out with processing = true has been returned and has refreshed to a
\* last_activity that the first call's filter excludes.
C30_OneReclaimer ==
    [][\A w \in Workers :
         (pc[w] = "check_out" /\ loc[w].processing /\ pc'[w] = "row")
         => ~ \E w2 \in Workers \ {w} :
                /\ pc[w2] = "row" /\ resp[w2] = "Some"
                /\ w2 \notin fresh[loc[w].sel]
                /\ loc[w2].row = uploads[loc[w].sel]
                /\ loc[w2].row.last_activity >= loc[w].stamp - Grace]_vars

\* C31: a chunk PUT writes bytes to the file only while the stored status of
\* the record is UPLOADING.
C31_WriteOnlyWhileUploading ==
    [][\A p \in ServerPuts :
         (pc[p] = "write" /\ pc'[p] = "write" /\ loc'[p].pos > loc[p].pos)
         => uploads[loc[p].id].status = "UPLOADING"]_vars

\* C32: a chunk PUT answered "Item is not in the UPLOADING status" or "Offset
\* too large" has changed neither the record nor the file; after "Offset too
\* large" the status of the record is UPLOADING; and a PUT goes past the tests
\* only with a record that is UPLOADING and an offset not greater than its size.
C32_RejectedPutChangesNothing ==
    [][\A p \in ServerPuts :
         /\ (pc[p] = "idle" /\ pc'[p] = "done"
               /\ resp'[p] \in {"Item is not in the UPLOADING status", "Offset too large"})
            => /\ uploads' = uploads
               /\ files' = files
               /\ durable' = durable
               /\ locks' = locks
               /\ feeds' = feeds
         /\ (pc[p] = "idle" /\ pc'[p] = "done" /\ resp'[p] = "Offset too large")
            => \A id \in DOMAIN uploads' : uploads'[id].status = "UPLOADING"
         /\ (pc[p] = "idle" /\ pc'[p] = "enter")
            => /\ loc'[p].row = uploads[loc'[p].row.id]
               /\ loc'[p].row.status = "UPLOADING"
               /\ loc'[p].offset <= loc'[p].row.size]_vars

\* A PUT at an offset beyond the size of a file that holds a byte has been
\* answered "Offset too large".
C32_Witness ==
    \E p \in ServerPuts :
        /\ pc[p] = "done" /\ resp[p] = "Offset too large"
        /\ "u1" \in DOMAIN uploads /\ uploads["u1"].size = 1
        /\ files["u1"] = <<1>>

\* C33: a finish request that asks for its lock while a write_to_file call
\* holds the shared lock on the file is answered "Failed to lock file" in that
\* step, the record unchanged and still UPLOADING if it was; a finish request
\* that asks for its lock while no other handle holds a lock on the file gets
\* it, and its row.finish() on a record stored as UPLOADING answers Ok and
\* stores VERIFYING.
C33_FinishAgainstSharedLock ==
    [][\A f \in FinHandlers :
         /\ (pc[f] = "lock" /\ pc'[f] # "lock")
            => LET id == loc[f].row.id IN
               IF \E l \in locks : l.id = id /\ l.handle # f /\ ~l.exclusive
               THEN /\ pc'[f] = "done"
                    /\ resp'[f] = "Failed to lock file"
                    /\ uploads' = uploads
                    /\ locks' = locks
               ELSE (\A l \in locks : l.id = id => l.handle = f)
                    => /\ pc'[f] = "finish"
                       /\ Lock(f, id, TRUE) \in locks'
         /\ (pc[f] = "finish" /\ pc'[f] # "finish"
               /\ uploads[loc[f].row.id].status = "UPLOADING")
            => /\ resp'[f] = "Ok"
               /\ uploads'[loc[f].row.id].status = "VERIFYING"]_vars

\* A finish request has been refused its lock while a chunk PUT is in its write
\* loop, and the record is still UPLOADING.
C33_Witness ==
    \E f \in FinHandlers, p \in ServerPuts :
        /\ pc[f] = "done" /\ resp[f] = "Failed to lock file"
        /\ pc[p] = "write"
        /\ Lock(p, "u1", FALSE) \in locks
        /\ uploads["u1"].status = "UPLOADING"

\* C34: a write_to_file call that finds an exclusive lock of another handle on
\* the file returns an error in that step, having written nothing and holding
\* no lock; a call that finds only shared locks of other handles is granted its
\* shared lock beside them.
C34_SharedLockOrFail ==
    [][\A p \in PutHandlers :
         (pc[p] = "idle" /\ pc'[p] # "idle")
         => IF \E l \in locks : l.id \in ServerIds /\ l.handle # p /\ l.exclusive
            THEN /\ pc'[p] = "done"
                 /\ resp'[p] = "I/O error"
                 /\ files' = files
                 /\ durable' = durable
                 /\ locks' = locks
            ELSE /\ pc'[p] = "write"
                 /\ locks' = locks \cup {Lock(p, loc'[p].id, FALSE)}
                 /\ files' = files]_vars

\* A finish request holds the exclusive lock and a write_to_file call has been
\* refused: the file has its bytes as allocated.
C34_Witness ==
    \E p \in PutHandlers, f \in WriterFins :
        /\ Lock(f, "u1", TRUE) \in locks
        /\ pc[p] = "done" /\ resp[p] = "I/O error"
        /\ files["u1"] = Allocated(1)

C36_RecordIdentityFixed ==
    [][/\ \A id \in DOMAIN uploads :
             /\ id \in DOMAIN uploads'
             /\ uploads'[id].id = uploads[id].id
             /\ uploads'[id].size = uploads[id].size
             /\ uploads'[id].pipeline = uploads[id].pipeline
             /\ uploads'[id].project = uploads[id].project
       /\ \A w \in Workers :
             (pc[w] = "idle" /\ pc'[w] = "done" /\ resp'[w] = "WriteFailed")
             => uploads' = uploads
       /\ (DOMAIN uploads' # DOMAIN uploads)
          => \E w \in Workers :
                /\ pc[w] = "idle" /\ pc'[w] = "row" /\ resp'[w] = "Ok"
                /\ loc'[w].row.id \notin DOMAIN uploads
                /\ loc'[w].row.status = "UPLOADING" /\ ~loc'[w].row.processing
                /\ uploads' = uploads @@ (loc'[w].row.id :> loc'[w].row)]_vars

\* An insert under the id of a record that has been claimed and changed since
\* its creation has been answered WriteFailed; the record is as it was.
C36_Witness ==
    \E w \in Workers :
        /\ pc[w] = "done" /\ resp[w] = "WriteFailed"
        /\ DOMAIN uploads = {"u1"}
        /\ uploads["u1"].processing
        /\ uploads["u1"].status = "VERIFYING"
        /\ uploads["u1"].size = 1 /\ uploads["u1"].project = "pa"

\* The sum of a sequence of lengths.
RECURSIVE SumOf(_)
SumOf(seq) == IF seq = <<>> THEN 0 ELSE Head(seq) + SumOf(Tail(seq))

\* C37: the chunk PUT under way carries the offset that is the sum of the
\* lengths of the chunks acknowledged so far, and stays within the size; a
\* failed attempt is followed by the same chunk at the same offset; an
\* acknowledged chunk is followed by a PUT only while bytes remain, the bytes
\* remaining going down with every acknowledged chunk; finish is sent, and the
\* wait entered, only when the acknowledged chunks add up to the size.
C37_ChunksInSequence ==
    [][\A c \in Clients :
         /\ (pc[c] \in {"try", "backoff"} /\ loc[c].step = "chunk")
            => /\ loc[c].offset = SumOf(loc[c].acked)
               /\ loc[c].chunk >= 1
               /\ loc[c].offset + loc[c].chunk <= loc[c].size
               /\ (pc'[c] \in {"try", "backoff"} /\ loc'[c].acked = loc[c].acked)
                  => /\ loc'[c].offset = loc[c].offset
                     /\ loc'[c].chunk = loc[c].chunk
               /\ (loc'[c].acked # loc[c].acked /\ pc'[c] = "try")
                  => /\ resp'[c] = "Ok"
                     /\ loc'[c].acked = Append(loc[c].acked, loc[c].chunk)
                     /\ loc'[c].remaining < loc[c].remaining
                     /\ loc'[c].remaining >= 0
         /\ (pc[c] \in {"try", "backoff", "subscribe", "stream", "join"}
               /\ loc[c].step = "finish")
            => /\ SumOf(loc[c].acked) = loc[c].size
               /\ loc[c].offset = loc[c].size
               /\ loc[c].remaining = 0]_vars

\* A file of two bytes has gone up as two chunks of one byte, the second at
\* offset 1, and finish is being sent.
C37_Witness ==
    \E c \in Clients :
        /\ pc[c] = "try" /\ loc[c].step = "finish"
        /\ loc[c].acked = <<1, 1>>
        /\ loc[c].offset = 2 /\ loc[c].size = 2

====
